---- MODULE Spec2Model ----
(***************************************************************************)
(* Spell-check orchestration of the Perplexity vault assistant: the three  *)
(* strategies of services/SpellCheckStrategy.ts (FullChunkedStrategy,      *)
(* IncrementalStrategy, AutoStrategy) driven by                            *)
(* SpellCheckEnhancementModal.runSpellCheck, with the checker              *)
(* (service.checkSpellingAndFormat) as an asynchronous collaborator whose  *)
(* every call either resolves with a result or rejects.                    *)
(*                                                                         *)
(* A document is a sequence of one-character strings.  One behaviour is    *)
(* one strategy instance: runSpellCheck creates it and calls check();      *)
(* for the incremental strategy a client of the class may go on calling    *)
(* checkNextSection, each call awaited before the next.                    *)
(***************************************************************************)
EXTENDS Integers, Sequences, FiniteSets, TLC

\* ------------------------------------------------------------------ bounds
\* lines per generated short document
MaxLines == 3
\* corrections the checker reports in one call
MaxCorr == 2
\* checker calls one incremental session may issue (retries included)
MaxCalls == 3
\* CacheManager / service calls and restarts in one behaviour of the cache
MaxOps == 3
\* the latest clock reading
MaxTime == 2

\* -------------------------------------------------------- program constants
DefaultChunkSize == 4000
DefaultSectionSize == 5000
DefaultThreshold == 3
firstSectionSize == 5000
PerThousand == 1000
MaxSentChars == 5000

\* ------------------------------------------------------------------ strings
NL == "\n"
HASH == "#"
SP == " "

Min(a, b) == IF a <= b THEN a ELSE b
Max(a, b) == IF a >= b THEN a ELSE b

\* String.prototype.substring(start, end): indices clamped to 0..length,
\* swapped when start > end; the characters start .. end-1 (0-based).
Substring(s, start, end) ==
    LET a == Min(Max(start, 0), Len(s))
        b == Min(Max(end, 0), Len(s))
    IN  SubSeq(s, Min(a, b) + 1, Max(a, b))

\* s.split('\n').length
SplitLinesLength(s) == Cardinality({k \in 1..Len(s) : s[k] = NL}) + 1

\* String.prototype.trim() over the whitespace of the alphabet
IsWhitespace(c) == c \in {SP, NL}
Trim(s) ==
    LET ink == {k \in 1..Len(s) : ~IsWhitespace(s[k])}
    IN  IF ink = {} THEN <<>>
        ELSE SubSeq(s, CHOOSE k \in ink : \A m \in ink : k <= m,
                       CHOOSE k \in ink : \A m \in ink : k >= m)

\* positions of the newlines matched by /\n(?=##? )/
HeaderBreaks(s) ==
    {k \in 1..Len(s) :
        /\ s[k] = NL
        /\ k + 2 <= Len(s)
        /\ s[k + 1] = HASH
        /\ \/ s[k + 2] = SP
           \/ /\ k + 3 <= Len(s)
              /\ s[k + 2] = HASH
              /\ s[k + 3] = SP}

\* content.split(/\n(?=##? )/): the pieces between the matched newlines
HeaderSplit(s) ==
    LET P == HeaderBreaks(s)
        n == Cardinality(P)
        pos(j) == IF j = 0 THEN 0
                  ELSE IF j = n + 1 THEN Len(s) + 1
                  ELSE CHOOSE p \in P : Cardinality({q \in P : q <= p}) = j
    IN  [j \in 1..(n + 1) |-> SubSeq(s, pos(j - 1) + 1, pos(j) - 1)]

\* the loop of splitByHeaders over the pieces from index j on
RECURSIVE SplitLoop(_, _, _, _, _)
SplitLoop(pieces, j, chunkSize, sections, cur) ==
    IF j > Len(pieces)
    THEN IF cur # <<>> THEN Append(sections, Trim(cur)) ELSE sections
    ELSE LET piece == pieces[j]
         IN  IF Len(cur) + Len(piece) > chunkSize /\ cur # <<>>
             THEN SplitLoop(pieces, j + 1, chunkSize,
                            Append(sections, Trim(cur)), piece)
             ELSE SplitLoop(pieces, j + 1, chunkSize, sections,
                            cur \o (IF cur # <<>> THEN <<NL, NL>> ELSE <<>>) \o piece)

splitByHeaders(s, chunkSize) == SplitLoop(HeaderSplit(s), 1, chunkSize, <<>>, <<>>)

\* ------------------------------------------------------------------ results
EmptyResult == [corrections |-> <<>>, formattingIssues |-> <<>>]

\* sequences over S of length at most n
SeqsUpTo(S, n) == UNION {[1..k -> S] : k \in 0..n}

\* n entries on the lines of a text of L lines, from the last line backwards
\* (so not in line order); tag is the field naming the entry's text
EntriesOn(tag, n, L) ==
    [k \in 1..n |-> IF tag = "original"
                    THEN [original |-> k, line |-> L - ((k - 1) % L)]
                    ELSE [issue |-> k, line |-> L - ((k - 1) % L)]]

\* what the checker may answer for a text: up to MaxCorr corrections, with or
\* without a formatting issue, each on a line of that text
ResultsFor(text) ==
    LET L == SplitLinesLength(text)
    IN  {[corrections |-> EntriesOn("original", nc, L),
          formattingIssues |-> EntriesOn("issue", IF withIssue THEN 1 ELSE 0, L)] :
            nc \in 0..MaxCorr, withIssue \in BOOLEAN}

\* entries.map(e => ({...e, line: e.line + lineOffset}))
AdjustLines(entries, offset) ==
    [k \in 1..Len(entries) |-> [entries[k] EXCEPT !.line = @ + offset]]

\* ------------------------------------------------------------------ settings
\* value || fallback
OrDefault(v, d) == IF v = 0 THEN d ELSE v

ChunkSizeOf(st) == OrDefault(st.fullModeChunkSize, DefaultChunkSize)
SectionSizeOf(st) == OrDefault(st.incrementalModeSectionSize, DefaultSectionSize)
ThresholdOf(st) == OrDefault(st.autoModeThreshold, DefaultThreshold)


\* ------------------------------------------------------------------ inputs
\* the lines short documents are made of: text, blank, "# a", "## " headers
LineKinds == {<<"a">>, <<>>, <<HASH, SP, "a">>, <<HASH, HASH, SP>>}

RECURSIVE JoinLines(_)
JoinLines(ls) ==
    IF Len(ls) = 0 THEN <<>>
    ELSE IF Len(ls) = 1 THEN ls[1]
    ELSE ls[1] \o <<NL>> \o JoinLines(Tail(ls))

ShortDocs == {JoinLines(ls) : ls \in SeqsUpTo(LineKinds, MaxLines)}

\* documents without headers, for the strategies that do not look for them:
\* blank, one-letter and four-letter lines
PlainKinds == {<<>>, <<"a">>, <<"a", "a", "a", "a">>}
PlainDocs == {JoinLines(ls) : ls \in SeqsUpTo(PlainKinds, MaxLines)}

\* long single-line documents, for the strategy whose constants are in the
\* thousands of characters
LongLengths == {500, 1000, 2000, 5000, 5001}
LongDocs == {[k \in 1..n |-> "a"] : n \in LongLengths}

\* settings tried (0: unset); progress reports are switched off only with
\* the larger chunk size
ChunkSizes == {0, 3, 6}
SectionSizes == {0, 5, 8}
Thresholds == {0, 1, 2}

Modes == {"full", "incremental", "auto"}

\* a spellCheckMode value that is none of the three (settings are loaded from
\* the plugin's data file as they are)
OtherModes == {"bogus"}

\* ------------------------------------------------------------------- state
VARIABLES
    mode,            \* settings.spellCheckMode handed to createStrategy
    strategy,        \* the strategy object createStrategy returned
    content,         \* the document read by runSpellCheck
    settings,        \* the plugin settings the strategies read
    pc,              \* where the running call is suspended
    calls,           \* every checker call issued: text, outcome, result
    sections,        \* FullChunkedStrategy.check: sections
    i,               \* FullChunkedStrategy.check: loop index
    lineOffset,      \* FullChunkedStrategy.check: lineOffset
    results,         \* FullChunkedStrategy.check: results
    currentSection,  \* IncrementalStrategy.currentSection
    totalSections,   \* IncrementalStrategy.totalSections
    allResults,      \* IncrementalStrategy.allResults
    startPos,        \* IncrementalStrategy.checkNextSection: startPos
    returned,        \* settled value of the last check/checkNextSection call
    progress,        \* onProgress invocations: the percentages, in order
    suggestions,     \* onModeSwitchSuggestion invocations: the modes, in order
    delays,          \* inter-chunk delays waited: the chunk index each followed
    modal,           \* what runSpellCheck showed: none / results / error
    cache,           \* CacheManager.cache: key -> {value, timestamp, ttl}
    blob,            \* the file 'perplexity-cache' in the vault's storage
    now,             \* Date.now()
    load,            \* progress of the loadCache() the constructor started
    ret,             \* how the last CacheManager / service call settled
    requests,        \* remote requests made by checkSpellingAndFormat
    cacheSettings,   \* settings.cacheEnabled, settings.cacheDuration
    ops              \* calls made so far in this behaviour

strategyVars == <<mode, strategy, content, settings, pc, calls, sections, i, lineOffset,
                  results, currentSection, totalSections, allResults, startPos,
                  returned, progress, suggestions, delays, modal>>

cacheVars == <<cache, blob, now, load, ret, requests, cacheSettings, ops>>

vars == <<strategyVars, cacheVars>>

fullVars == <<sections, i, lineOffset, results>>
incVars == <<currentSection, totalSections, allResults, startPos>>
inputVars == <<mode, content, settings>>

NoValue == [kind |-> "none"]
Resolved(v) == [kind |-> "resolved", value |-> v]
Rejected == [kind |-> "rejected"]

\* A call of the strategy settles with v.  When it is the check() call of
\* runSpellCheck, runSpellCheck resumes: it opens the results modal with the
\* result, or shows the failure notice when check() rejected.
Settle(v) ==
    /\ returned' = v
    /\ pc' = "idle"
    /\ modal' = IF modal # NoValue THEN modal
                ELSE IF v.kind = "resolved"
                     THEN [kind |-> "results", value |-> v.value]
                     ELSE [kind |-> "error"]

\* ------------------------------------------------------------ cache data
\* String.prototype.charCodeAt for the letters the checked texts are made of
charCodeAt(c) == CASE c = "A" -> 65 [] c = "B" -> 66 [] c = "a" -> 97 [] OTHER -> 32

\* the loop of simpleHash: hash = ((hash << 5) - hash) + char; hash = hash & hash.
\* The bitwise operators wrap to 32 bits; the texts hashed here are short
\* enough for every intermediate value to stay far inside that range.
RECURSIVE HashLoop(_, _, _)
HashLoop(str, k, hash) ==
    IF k > Len(str) THEN hash
    ELSE HashLoop(str, k + 1, ((hash * 32) - hash) + charCodeAt(str[k]))

Digits36 == <<"0", "1", "2", "3", "4", "5", "6", "7", "8", "9", "a", "b", "c",
              "d", "e", "f", "g", "h", "i", "j", "k", "l", "m", "n", "o", "p",
              "q", "r", "s", "t", "u", "v", "w", "x", "y", "z">>

\* Number.prototype.toString(36) of a natural number
RECURSIVE ToString36(_)
ToString36(n) ==
    IF n < Len(Digits36) THEN <<Digits36[n + 1]>>
    ELSE ToString36(n \div Len(Digits36)) \o <<Digits36[(n % Len(Digits36)) + 1]>>

\* simpleHash(str): Math.abs(hash).toString(36)
simpleHash(str) ==
    LET h == HashLoop(str, 1, 0)
    IN  ToString36(IF h < 0 THEN 0 - h ELSE h)

\* the texts of the key: 'spell:', the language 'en', the prompt 'standard'
SpellPrefix == <<"s", "p", "e", "l", "l", ":">>
Language == <<"e", "n">>
PromptName == <<"s", "t", "a", "n", "d", "a", "r", "d">>

\* `spell:${language}:${this.simpleHash(content)}:${this.settings.spellCheckPrompt}`
cacheKey(text) ==
    SpellPrefix \o Language \o <<":">> \o simpleHash(text) \o <<":">> \o PromptName

\* a one-character key
OneCharKey == <<"s">>

\* the texts handed to checkSpellingAndFormat
CheckedTexts == {<<"A", "a">>, <<"B", "B">>}

\* the keys handed to get and set
Keys == {cacheKey(t) : t \in CheckedTexts} \cup {OneCharKey}

\* the ttl values handed to get and set, and the settings' cacheDuration
Ttls == {1, 2}

\* a regular expression of the forms used: literal text, anchored at the start
\* (^text) or not
Patterns == {[anchored |-> TRUE, text |-> SpellPrefix],
             [anchored |-> FALSE, text |-> <<"s">>]}

\* RegExp.prototype.test for such an expression
RegexTest(pattern, str) ==
    \E k \in 0..(Len(str) - Len(pattern.text)) :
        /\ pattern.anchored => k = 0
        /\ SubSeq(str, k + 1, k + Len(pattern.text)) = pattern.text

EmptyCache == [k \in {} |-> NoValue]

\* Map.prototype.set / delete on the cache
MapSet(c, key, entry) == [k \in DOMAIN c \cup {key} |-> IF k = key THEN entry ELSE c[k]]
MapDelete(c, keys) == [k \in DOMAIN c \ keys |-> c[k]]

\* JSON.stringify(Object.fromEntries(Array.from(cache.entries()))): the object
\* text, one member per key holding value, timestamp and ttl
Stringify(c) ==
    [kind |-> "json",
     members |-> {[name |-> k, value |-> c[k].value, timestamp |-> c[k].timestamp,
                   ttl |-> c[k].ttl] : k \in DOMAIN c}]

\* the entries are stamped with the time of loading
ParseToMapRestamped(stored) ==
    [k \in {m.name : m \in stored.members} |->
        LET m == CHOOSE m \in stored.members : m.name = k
        IN  [value |-> m.value, timestamp |-> now, ttl |-> m.ttl]]

\* new Map(Object.entries(JSON.parse(stored)))
ParseToMap(stored) ==
    [k \in {m.name : m \in stored.members} |->
        LET m == CHOOSE m \in stored.members : m.name = k
        IN  [value |-> m.value, timestamp |-> m.timestamp, ttl |-> m.ttl]]

\* the states of the storage file: absent, empty, not JSON, or an object text
BlobMissing == [kind |-> "missing"]
BlobEmpty == [kind |-> "empty"]
BlobMalformed == [kind |-> "malformed"]

\* the cache variables while no CacheManager call is made
CacheAtRest ==
    /\ cache = EmptyCache
    /\ blob = BlobMissing
    /\ now = 0
    /\ load = [phase |-> "done"]
    /\ ret = NoValue
    /\ requests = 0
    /\ cacheSettings = [cacheEnabled |-> TRUE, cacheDuration |-> 1]
    /\ ops = 0

Init ==
    /\ CacheAtRest
    /\ mode \in Modes \cup OtherModes
    /\ strategy = NoValue
    /\ content \in CASE mode = "full" -> ShortDocs \cup LongDocs
                    [] mode = "incremental" -> PlainDocs
                    [] mode = "auto" -> PlainDocs \cup LongDocs
                    [] OTHER -> {<<"a">>}
    /\ settings \in
         {[fullModeChunkSize |-> IF mode = "full" THEN c ELSE 0,
           fullModeShowProgress |-> IF mode = "full" THEN p ELSE TRUE,
           incrementalModeSectionSize |-> IF mode = "incremental" THEN z ELSE 0,
           autoModeThreshold |-> IF mode = "auto" THEN t ELSE 0] :
             c \in ChunkSizes, p \in BOOLEAN, z \in SectionSizes, t \in Thresholds}
    /\ settings.fullModeShowProgress \/ settings.fullModeChunkSize = 6
    /\ pc = "start"
    /\ calls = <<>>
    /\ sections = <<>>
    /\ i = 0
    /\ lineOffset = 0
    /\ results = EmptyResult
    /\ currentSection = 0
    /\ totalSections = 0
    /\ allResults = EmptyResult
    /\ startPos = 0
    /\ returned = NoValue
    /\ progress = <<>>
    /\ suggestions = <<>>
    /\ delays = <<>>
    /\ modal = NoValue

\* ------------------------------------------------------------- the checker
\* this.service.checkSpellingAndFormat(text, language) is started: the call is
\* in flight until the awaiting strategy resumes with its outcome
IssueCall(text) == Append(calls, [text |-> text, outcome |-> "pending", result |-> EmptyResult])

\* the part of a call's text that goes into the request to the remote API:
\* content.substring(0, 5000)
SentText(text) == Substring(text, 0, MaxSentChars)

\* call k settles: the promise resolves with r or rejects
SettleCall(k, outcome, r) ==
    [calls EXCEPT ![k] = [@ EXCEPT !.outcome = outcome, !.result = r]]

\* a call started without await: the caller goes on at once
NotAwaited(k) == TRUE

\* await: the caller resumes once the call it started has settled
Awaited(k) == calls[k].outcome # "pending"

LastCall == calls[Len(calls)]

InFlight == {k \in 1..Len(calls) : calls[k].outcome = "pending"}

\* the index is used as it is: Math.round((k / total) * 100)
ProgressOfZeroBased(k, total) ==
    IF total = 0 THEN 0 ELSE (200 * k + total) \div (2 * total)

\* Math.round(((k + 1) / total) * 100), k 0-based.  (For total = 0 JavaScript
\* yields Infinity; no caller reports progress with total = 0, and 0 stands
\* in for it.)
ProgressOf(k, total) ==
    IF total = 0 THEN 0 ELSE (200 * (k + 1) + total) \div (2 * total)


\* the remote exchange of one in-flight call ends: it resolves with some
\* result for its text, or rejects (network error, unparsable answer)
CheckerSettles ==
    /\ \E k \in InFlight :
         \/ \E r \in ResultsFor(calls[k].text) : calls' = SettleCall(k, "ok", r)
         \/ calls' = SettleCall(k, "fail", EmptyResult)
    /\ UNCHANGED <<cacheVars, inputVars, strategy, pc, fullVars, incVars, returned, progress,
                   suggestions, delays, modal>>

\* unshift in place of push
PushAllFront(acc, corr, iss) ==
    [corrections |-> corr \o acc.corrections,
     formattingIssues |-> iss \o acc.formattingIssues]

\* results.corrections.push(...adjustedCorrections);
\* results.formattingIssues.push(...adjustedIssues)
PushAll(acc, corr, iss) ==
    [corrections |-> acc.corrections \o corr,
     formattingIssues |-> acc.formattingIssues \o iss]

\* -------------------------------------------- SpellCheckStrategyFactory
\* an unknown mode yields the strategy of 'auto' in place of the error
createStrategyLenient(m) ==
    CASE m = "full" -> [kind |-> "FullChunkedStrategy"]
      [] m = "incremental" -> [kind |-> "IncrementalStrategy"]
      [] OTHER -> [kind |-> "AutoStrategy"]

\* createStrategy(mode, service, settings): the strategy constructed, or the
\* thrown Error('Unknown spell check mode: ...')
createStrategy(m) ==
    CASE m = "full" -> [kind |-> "FullChunkedStrategy"]
      [] m = "incremental" -> [kind |-> "IncrementalStrategy"]
      [] m = "auto" -> [kind |-> "AutoStrategy"]
      [] OTHER -> [kind |-> "thrown"]

\* runSpellCheck calls createStrategy: the constructors store the service and
\* the sizes they read from the settings and call nothing; a thrown error is
\* caught by runSpellCheck, which shows the failure notice
CreateStrategy ==
    /\ pc = "start"
    /\ IF createStrategy(mode).kind = "thrown"
       THEN /\ modal' = [kind |-> "error"]
            /\ pc' = "idle"
            /\ UNCHANGED strategy
       ELSE /\ strategy' = createStrategy(mode)
            /\ pc' = "created"
            /\ UNCHANGED modal
    /\ UNCHANGED <<cacheVars, inputVars, calls, fullVars, incVars, returned, progress,
                   suggestions, delays>>

\* ------------------------------------------------- FullChunkedStrategy.check
\* content.length < chunkSize
FitsOneChunkStrict(s, chunkSize) == Len(s) < chunkSize

\* content.length <= chunkSize
FitsOneChunk(s, chunkSize) == Len(s) <= chunkSize

\* runSpellCheck calls check() on the full strategy: the
\* single-chunk shortcut starts its one call, otherwise the sections are split
FullCheck ==
    /\ pc = "created"
    /\ strategy.kind = "FullChunkedStrategy"
    /\ IF FitsOneChunk(content, ChunkSizeOf(settings))
       THEN /\ calls' = IssueCall(content)
            /\ pc' = "full_single"
            /\ UNCHANGED fullVars
       ELSE /\ sections' = splitByHeaders(content, ChunkSizeOf(settings))
            /\ results' = EmptyResult
            /\ lineOffset' = 0
            /\ i' = 0
            /\ pc' = "full_loop"
            /\ UNCHANGED calls
    /\ UNCHANGED <<cacheVars, inputVars, strategy, incVars, returned, progress, suggestions, delays, modal>>

\* return await this.service.checkSpellingAndFormat(content, language)
FullSingleDone ==
    /\ pc = "full_single"
    /\ Awaited(Len(calls))
    /\ Settle(IF LastCall.outcome = "ok" THEN Resolved(LastCall.result) ELSE Rejected)
    /\ UNCHANGED <<cacheVars, inputVars, strategy, calls, fullVars, incVars, progress, suggestions, delays>>

\* head of the loop body: progress report, then the call for sections[i]
FullNextChunk ==
    /\ pc = "full_loop"
    /\ i < Len(sections)
    /\ progress' = IF settings.fullModeShowProgress
                   THEN Append(progress, ProgressOf(i, Len(sections)))
                   ELSE progress
    /\ calls' = IssueCall(sections[i + 1])
    /\ pc' = "full_await"
    /\ UNCHANGED <<cacheVars, inputVars, strategy, fullVars, incVars, returned, suggestions, delays, modal>>

\* the call settled: on success adjust, accumulate, advance lineOffset and
\* start the delay unless this was the last section; on rejection the catch
\* block only logs
FullChunkDone ==
    /\ pc = "full_await"
    /\ Awaited(Len(calls))
    /\ IF LastCall.outcome = "ok"
       THEN /\ results' = PushAll(results,
                                  AdjustLines(LastCall.result.corrections, lineOffset),
                                  AdjustLines(LastCall.result.formattingIssues, lineOffset))
            /\ lineOffset' = lineOffset + SplitLinesLength(sections[i + 1])
            /\ IF i < Len(sections) - 1
               THEN pc' = "full_delay" /\ i' = i
               ELSE pc' = "full_loop" /\ i' = i + 1
       ELSE /\ pc' = "full_loop"
            /\ i' = i + 1
            /\ UNCHANGED <<results, lineOffset>>
    /\ UNCHANGED <<cacheVars, inputVars, strategy, calls, sections, incVars, returned, progress,
                   suggestions, delays, modal>>

\* await new Promise(resolve => setTimeout(resolve, 800)) has elapsed
FullDelayDone ==
    /\ pc = "full_delay"
    /\ delays' = Append(delays, i)
    /\ i' = i + 1
    /\ pc' = "full_loop"
    /\ UNCHANGED <<cacheVars, inputVars, strategy, calls, sections, lineOffset, results, incVars,
                   returned, progress, suggestions, modal>>

\* return results
FullReturn ==
    /\ pc = "full_loop"
    /\ i >= Len(sections)
    /\ Settle(Resolved(results))
    /\ UNCHANGED <<cacheVars, inputVars, strategy, calls, fullVars, incVars, progress, suggestions, delays>>

\* ---------------------------------------------------- IncrementalStrategy
\* Math.ceil(a / b), b > 0
CeilDiv(a, b) == (a + b - 1) \div b

\* this.currentSection > this.totalSections
SessionCompleteStrict(cur, total) == cur > total

\* this.currentSection >= this.totalSections
SessionComplete(cur, total) == cur >= total

\* this.currentSection <= this.totalSections
hasMoreSectionsInclusive == currentSection <= totalSections

\* hasMoreSections()
hasMoreSections == currentSection < totalSections

\* getAllResults()
getAllResults == allResults

\* content.substring(0, startPos).split('\n').length
SectionLineOffset(s, sp) == SplitLinesLength(Substring(s, 0, sp))

\* checkNextSection up to its await, entered with the session fields cur,
\* total, all: past the end it returns the accumulated total; otherwise it
\* reports progress and starts the call for the section at cur
CheckNextSectionEnter(cur, total, all) ==
    IF SessionComplete(cur, total)
    THEN /\ Settle(Resolved(all))
         /\ UNCHANGED <<calls, startPos, progress>>
    ELSE LET size == SectionSizeOf(settings)
             sp == cur * size
             endPos == Min(sp + size, Len(content))
         IN  /\ startPos' = sp
             /\ progress' = Append(progress, ProgressOf(cur, total))
             /\ calls' = IssueCall(Substring(content, sp, endPos))
             /\ pc' = "inc_await"
             /\ UNCHANGED <<returned, modal>>

\* runSpellCheck calls check() on the incremental strategy:
\* the session is reset and the first checkNextSection runs
IncCheck ==
    /\ pc = "created"
    /\ strategy.kind = "IncrementalStrategy"
    /\ currentSection' = 0
    /\ totalSections' = CeilDiv(Len(content), SectionSizeOf(settings))
    /\ allResults' = EmptyResult
    /\ CheckNextSectionEnter(currentSection', totalSections', allResults')
    /\ UNCHANGED <<cacheVars, inputVars, strategy, fullVars, suggestions, delays>>

\* a client calls checkNextSection(content, ...) after the previous call returned
IncNext ==
    /\ pc = "idle"
    /\ strategy.kind = "IncrementalStrategy"
    /\ SessionComplete(currentSection, totalSections) \/ Len(calls) < MaxCalls
    /\ CheckNextSectionEnter(currentSection, totalSections, allResults)
    /\ UNCHANGED <<cacheVars, inputVars, strategy, fullVars, currentSection, totalSections, allResults,
                   suggestions, delays>>

\* the section's call settled: on success adjust, accumulate, advance and
\* return the partial result; on rejection return an empty result
IncSectionDone ==
    /\ pc = "inc_await"
    /\ Awaited(Len(calls))
    /\ IF LastCall.outcome = "ok"
       THEN LET off == SectionLineOffset(content, startPos)
                corr == AdjustLines(LastCall.result.corrections, off)
                iss == AdjustLines(LastCall.result.formattingIssues, off)
            IN  /\ allResults' = PushAll(allResults, corr, iss)
                /\ currentSection' = currentSection + 1
                /\ Settle(Resolved([corrections |-> corr, formattingIssues |-> iss]))
       ELSE /\ Settle(Resolved(EmptyResult))
            /\ UNCHANGED <<allResults, currentSection>>
    /\ UNCHANGED <<cacheVars, inputVars, strategy, calls, fullVars, totalSections, startPos, progress,
                   suggestions, delays>>

\* ------------------------------------------------------- AutoStrategy.check
\* the whole content in place of its prefix
FirstSectionWhole(s) == s

\* content.substring(0, Math.min(firstSectionSize, content.length))
FirstSection(s) == Substring(s, 0, Min(firstSectionSize, Len(s)))

\* errorCount / (firstSection.length / 1000) >= threshold, in IEEE arithmetic:
\* for the empty prefix the quotient is Infinity (errorCount > 0) or NaN
DensityAtLeast(errorCount, length, threshold) ==
    IF length = 0 THEN errorCount > 0
    ELSE errorCount * PerThousand >= threshold * length

\* runSpellCheck calls check() on the auto strategy: progress
\* 10, then the call on the first section
AutoCheck ==
    /\ pc = "created"
    /\ strategy.kind = "AutoStrategy"
    /\ progress' = Append(progress, 10)
    /\ calls' = IssueCall(FirstSection(content))
    /\ pc' = "auto_await"
    /\ UNCHANGED <<cacheVars, inputVars, strategy, fullVars, incVars, returned, suggestions, delays, modal>>

\* the call settled: a rejection rejects check(); otherwise the density is
\* compared, the suggestion made, and firstResult returned on every path
AutoDone ==
    /\ pc = "auto_await"
    /\ Awaited(Len(calls))
    /\ IF LastCall.outcome = "ok"
       THEN LET firstResult == LastCall.result
                errorCount == Len(firstResult.corrections) + Len(firstResult.formattingIssues)
                shouldRunFull == DensityAtLeast(errorCount, Len(FirstSection(content)),
                                                ThresholdOf(settings))
            IN  /\ suggestions' = IF shouldRunFull THEN Append(suggestions, "full")
                                  ELSE suggestions
                /\ progress' = IF Len(content) <= firstSectionSize THEN progress
                               ELSE Append(progress, 100)
                /\ Settle(Resolved(firstResult))
       ELSE /\ Settle(Rejected)
            /\ UNCHANGED <<suggestions, progress>>
    /\ UNCHANGED <<cacheVars, inputVars, strategy, calls, fullVars, incVars, delays>>

\* ----------------------------------------------------------- specification
Next ==
    \/ CreateStrategy
    \/ CheckerSettles
    \/ FullCheck
    \/ FullSingleDone
    \/ FullNextChunk
    \/ FullChunkDone
    \/ FullDelayDone
    \/ FullReturn
    \/ IncCheck
    \/ IncNext
    \/ IncSectionDone
    \/ AutoCheck
    \/ AutoDone

Spec == Init /\ [][Next]_vars

\* ============================================================ CacheManager
\* the strategy variables while no spell check runs
StrategyAtRest ==
    /\ mode = "full"
    /\ strategy = NoValue
    /\ content = <<>>
    /\ settings = [fullModeChunkSize |-> 0, fullModeShowProgress |-> TRUE,
                   incrementalModeSectionSize |-> 0, autoModeThreshold |-> 0]
    /\ pc = "start"
    /\ calls = <<>>
    /\ sections = <<>>
    /\ i = 0
    /\ lineOffset = 0
    /\ results = EmptyResult
    /\ currentSection = 0
    /\ totalSections = 0
    /\ allResults = EmptyResult
    /\ startPos = 0
    /\ returned = NoValue
    /\ progress = <<>>
    /\ suggestions = <<>>
    /\ delays = <<>>
    /\ modal = NoValue

\* null, and a stored value: any value, told apart by the call that made it
Null == [kind |-> "null"]
Value(stamp) == [kind |-> "value", stamp |-> stamp]

\* the state after new CacheManager(app): an empty map and a load under way,
\* over whatever file an earlier run left
CacheInit ==
    /\ StrategyAtRest
    /\ cache = EmptyCache
    /\ blob \in {BlobMissing, BlobEmpty, BlobMalformed, Stringify(EmptyCache)}
    /\ now = 0
    /\ load = [phase |-> "reading"]
    /\ ret = NoValue
    /\ requests = 0
    /\ cacheSettings = [cacheEnabled |-> TRUE, cacheDuration |-> 1]
    /\ ops = 0

\* the map as it was before the call changed it is what gets written
saveCacheStale(c, written) == blob' = IF written THEN Stringify(cache) ELSE blob

\* saveCache(): the serialized map is written; the write succeeds or rejects
saveCache(c, written) == blob' = IF written THEN Stringify(c) ELSE blob

\* how a call that awaited saveCache settles: with v, or rejected with the
\* write's error
AfterSave(op, key, ttl, written, v) ==
    IF written
    THEN [op |-> op, key |-> key, ttl |-> ttl, kind |-> "resolved", value |-> v, saved |-> "written"]
    ELSE [op |-> op, key |-> key, ttl |-> ttl, kind |-> "rejected", value |-> Null, saved |-> "failed"]

\* a call that returned v without saving
NoSave(op, key, ttl, v) ==
    [op |-> op, key |-> key, ttl |-> ttl, kind |-> "resolved", value |-> v, saved |-> "none"]

\* age >= entry.ttl
isExpiredAtTtl(entry, ttl) == now - entry.timestamp >= entry.ttl

\* age > entry.ttl (the ttl given to get is not looked at)
isExpired(entry, ttl) == now - entry.timestamp > entry.ttl

\* get(key, ttl)
Get ==
    /\ ops < MaxOps
    /\ \E key \in Keys, ttl \in Ttls :
         IF key \notin DOMAIN cache
         THEN /\ ret' = NoSave("get", key, ttl, Null)
              /\ UNCHANGED <<cache, blob>>
         ELSE IF isExpired(cache[key], ttl)
         THEN \E written \in BOOLEAN :
                /\ cache' = MapDelete(cache, {key})
                /\ saveCache(cache', written)
                /\ ret' = AfterSave("get", key, ttl, written, Null)
         ELSE /\ ret' = NoSave("get", key, ttl, cache[key].value)
              /\ UNCHANGED <<cache, blob>>
    /\ ops' = ops + 1
    /\ UNCHANGED <<strategyVars, now, load, requests, cacheSettings>>

\* set(key, value, ttl)
Set ==
    /\ ops < MaxOps
    /\ \E key \in Keys, ttl \in Ttls, written \in BOOLEAN :
         /\ cache' = MapSet(cache, key, [value |-> Value(ops + 1), timestamp |-> now, ttl |-> ttl])
         /\ saveCache(cache', written)
         /\ ret' = AfterSave("set", key, ttl, written, Null)
    /\ ops' = ops + 1
    /\ UNCHANGED <<strategyVars, now, load, requests, cacheSettings>>

\* for (const [key] of this.cache.keys()): the first character of each key
FirstCharacter(key) == SubSeq(key, 1, 1)

\* invalidate(pattern)
Invalidate ==
    /\ ops < MaxOps
    /\ \E pattern \in Patterns, written \in BOOLEAN :
         LET hit == {FirstCharacter(k) : k \in DOMAIN cache}
             deleted == {key \in hit : RegexTest(pattern, key)}
         IN  /\ cache' = MapDelete(cache, deleted)
             /\ saveCache(cache', written)
             /\ ret' = AfterSave("invalidate", pattern, 0, written, Null)
    /\ ops' = ops + 1
    /\ UNCHANGED <<strategyVars, now, load, requests, cacheSettings>>

\* clear()
Clear ==
    /\ ops < MaxOps
    /\ \E written \in BOOLEAN :
         /\ cache' = EmptyCache
         /\ saveCache(cache', written)
         /\ ret' = AfterSave("clear", <<>>, 0, written, Null)
    /\ ops' = ops + 1
    /\ UNCHANGED <<strategyVars, now, load, requests, cacheSettings>>

\* time passes
Tick ==
    /\ now < MaxTime
    /\ now' = now + 1
    /\ UNCHANGED <<strategyVars, cache, blob, load, ret, requests, cacheSettings, ops>>

\* the process restarts: a new CacheManager, whose constructor starts the load
Restart ==
    /\ ops < MaxOps
    /\ cache' = EmptyCache
    /\ load' = [phase |-> "reading"]
    /\ ret' = NoValue
    /\ ops' = ops + 1
    /\ UNCHANGED <<strategyVars, blob, now, requests, cacheSettings>>

\* loadCache: adapter.read settles, with the file's text or rejected (no file,
\* or a failing read)
LoadReads ==
    /\ load.phase = "reading"
    /\ \E readable \in BOOLEAN :
         load' = [phase |-> "read",
                  stored |-> IF readable THEN blob ELSE BlobMissing]
    /\ UNCHANGED <<strategyVars, cache, blob, now, ret, requests, cacheSettings, ops>>

\* loadCache resumes: a non-empty text is parsed into the map; a rejected read
\* or a text that does not parse empties the map; an empty text changes nothing
LoadCompletes ==
    /\ load.phase = "read"
    /\ cache' = CASE load.stored.kind = "json" -> ParseToMap(load.stored)
                  [] load.stored.kind = "empty" -> cache
                  [] OTHER -> EmptyCache
    /\ load' = [phase |-> "done"]
    /\ UNCHANGED <<strategyVars, blob, now, ret, requests, cacheSettings, ops>>

\* cached && !this.settings.cacheEnabled
useCachedNegated(cached) == cached # Null /\ ~cacheSettings.cacheEnabled

\* cached && this.settings.cacheEnabled
useCached(cached) == cached # Null /\ cacheSettings.cacheEnabled

\* checkSpellingAndFormat(text, language) over the cache, start to end: the
\* lookup (which may evict and save), then, unless an entry was found and
\* caching is enabled, the remote request and, when caching is enabled, the
\* store.  A step that rejects (a failed save, the failed request) rejects the
\* call.
CheckSpellingAndFormat ==
    /\ ops < MaxOps
    /\ \E text \in CheckedTexts, evictWritten \in BOOLEAN, responded \in BOOLEAN,
          setWritten \in BOOLEAN :
         LET key == cacheKey(text)
             ttl == cacheSettings.cacheDuration
             present == key \in DOMAIN cache
             expired == present /\ isExpired(cache[key], ttl)
             afterGet == IF expired THEN MapDelete(cache, {key}) ELSE cache
             cached == IF present /\ ~expired THEN cache[key].value ELSE Null
             result == Value(ops + 1)
             stored == MapSet(afterGet, key, [value |-> result, timestamp |-> now, ttl |-> ttl])
             settled(kind, v, saved, remote) ==
                 [op |-> "check", key |-> key, ttl |-> ttl, kind |-> kind, value |-> v,
                  saved |-> saved, remote |-> remote]
         IN  \* choices that are not consulted are fixed, so that each run is one step
             /\ ~expired => evictWritten
             /\ (expired /\ ~evictWritten) => (responded /\ setWritten)
             /\ useCached(cached) => (responded /\ setWritten)
             /\ (~responded \/ ~cacheSettings.cacheEnabled) => setWritten
             /\ IF expired /\ ~evictWritten
                THEN \* get rejects: saveCache failed after the eviction
                     /\ cache' = afterGet
                     /\ UNCHANGED <<blob, requests>>
                     /\ ret' = settled("rejected", Null, "failed", "none")
                ELSE IF useCached(cached)
                THEN \* return cached
                     /\ UNCHANGED <<cache, blob, requests>>
                     /\ ret' = settled("resolved", cached, "none", "none")
                ELSE IF ~responded
                THEN \* fetch or the parsing of its answer throws
                     /\ cache' = afterGet
                     /\ blob' = IF expired THEN Stringify(afterGet) ELSE blob
                     /\ requests' = requests + 1
                     /\ ret' = settled("rejected", Null,
                                       IF expired THEN "written" ELSE "none", "failed")
                ELSE IF ~cacheSettings.cacheEnabled
                THEN /\ cache' = afterGet
                     /\ blob' = IF expired THEN Stringify(afterGet) ELSE blob
                     /\ requests' = requests + 1
                     /\ ret' = settled("resolved", result,
                                       IF expired THEN "written" ELSE "none", "ok")
                ELSE \* cacheManager.set, then return result
                     /\ cache' = stored
                     /\ blob' = IF setWritten THEN Stringify(stored)
                                ELSE IF expired THEN Stringify(afterGet) ELSE blob
                     /\ requests' = requests + 1
                     /\ ret' = IF setWritten
                               THEN settled("resolved", result, "written", "ok")
                               ELSE settled("rejected", Null, "failed", "ok")
    /\ ops' = ops + 1
    /\ UNCHANGED <<strategyVars, now, load, cacheSettings>>

\* the CacheManager under a client that calls it directly
CacheNext ==
    \/ Get
    \/ Set
    \/ Invalidate
    \/ Clear
    \/ Tick
    \/ Restart
    \/ LoadReads
    \/ LoadCompletes

CacheSpec == CacheInit /\ [][CacheNext]_vars

\* the state after the plugin constructed its CacheManager and its
\* PerplexityService, for the cache settings tried
ServiceInit ==
    /\ StrategyAtRest
    /\ cache = EmptyCache
    /\ blob \in {BlobMissing, BlobEmpty, BlobMalformed, Stringify(EmptyCache)}
    /\ now = 0
    /\ load = [phase |-> "reading"]
    /\ ret = NoValue
    /\ requests = 0
    /\ cacheSettings \in [cacheEnabled : BOOLEAN, cacheDuration : Ttls]
    /\ ops = 0

\* the service over its cache: spell checks, time passing and restarts
ServiceNext ==
    \/ CheckSpellingAndFormat
    \/ Tick
    \/ Restart
    \/ LoadReads
    \/ LoadCompletes

ServiceSpec == ServiceInit /\ [][ServiceNext]_vars


\* ================================================= long runs of the full mode
\* chunks of the long run
ManyChunks == 201

\* a document of n lines, each the header "## "
HeaderLines(n) ==
    [p \in 1..(4 * n - 1) |->
        CASE p % 4 = 0 -> NL [] p % 4 = 3 -> SP [] OTHER -> HASH]

\* full-mode runs, progress reports on, on documents that split into one
\* chunk per line: three chunks, and so many that a chunk is less than half a
\* percent of the run
ProgressInit ==
    /\ CacheAtRest
    /\ mode = "full"
    /\ strategy = NoValue
    /\ content \in {HeaderLines(n) : n \in {3, ManyChunks}}
    /\ settings = [fullModeChunkSize |-> 3, fullModeShowProgress |-> TRUE,
                   incrementalModeSectionSize |-> 0, autoModeThreshold |-> 0]
    /\ pc = "start"
    /\ calls = <<>>
    /\ sections = <<>>
    /\ i = 0
    /\ lineOffset = 0
    /\ results = EmptyResult
    /\ currentSection = 0
    /\ totalSections = 0
    /\ allResults = EmptyResult
    /\ startPos = 0
    /\ returned = NoValue
    /\ progress = <<>>
    /\ suggestions = <<>>
    /\ delays = <<>>
    /\ modal = NoValue

\* the checker over a clean document: each call resolves with an empty result,
\* or rejects, which it does at most once in a run
CheckerFindsNothing ==
    /\ \E k \in InFlight :
         \/ calls' = SettleCall(k, "ok", EmptyResult)
         \/ /\ \A j \in 1..Len(calls) : calls[j].outcome # "fail"
            /\ calls' = SettleCall(k, "fail", EmptyResult)
    /\ UNCHANGED <<cacheVars, inputVars, strategy, pc, fullVars, incVars, returned, progress,
                   suggestions, delays, modal>>

ProgressNext ==
    \/ CreateStrategy
    \/ CheckerFindsNothing
    \/ FullCheck
    \/ FullNextChunk
    \/ FullChunkDone
    \/ FullDelayDone
    \/ FullReturn

ProgressSpec == ProgressInit /\ [][ProgressNext]_vars

\* ====================================== the answer of the remote API, parsed
\* JavaScript values of the fields of an answer: a string, an empty array,
\* undefined (the key is absent)
Str(s) == [type |-> "string", text |-> s]
EmptyArray == [type |-> "array"]
Undefined == [type |-> "undefined"]

\* ToBoolean: the empty string and undefined are falsy, any array is truthy
Truthy(v) ==
    CASE v.type = "string" -> v.text # ""
      [] v.type = "array" -> TRUE
      [] OTHER -> FALSE

\* e[f], undefined when e has no key f
Field(e, f) == IF f \in DOMAIN e THEN e[f] ELSE Undefined

\* a || b
OrElse(a, b) == IF Truthy(a) THEN a ELSE b

\* {...e, [f]: e[f] || fallback}
WithFallback(e, f, fallback) ==
    [g \in DOMAIN e \cup {f} |-> IF g = f THEN OrElse(Field(e, f), Str(fallback)) ELSE e[g]]

\* parsed[key] || []
ListOf(parsed, key) == IF key \in DOMAIN parsed THEN parsed[key] ELSE <<>>

\* c => c.original && c.suggested
KeepCorrection(c) == Truthy(Field(c, "original")) /\ Truthy(Field(c, "suggested"))

\* i => i.issue
KeepIssue(e) == Truthy(Field(e, "issue"))

\* the result built from the parsed answer: fallback texts added, entries
\* without original, suggested or issue filtered out
ResultOf(parsed) ==
    LET corr == ListOf(parsed, "corrections")
        iss == ListOf(parsed, "formattingIssues")
    IN  [corrections |->
            SelectSeq([k \in 1..Len(corr) |->
                         WithFallback(corr[k], "context", "No context available")],
                      KeepCorrection),
         formattingIssues |->
            SelectSeq([k \in 1..Len(iss) |->
                         WithFallback(
                           WithFallback(iss[k], "originalText", "No original text available"),
                           "suggestedText", "No suggested text available")],
                      KeepIssue)]

\* JSON objects the API may answer for a text of L lines: no keys at all; one
\* well-formed correction and issue; entries with an empty original, no
\* suggested and no issue around a well-formed one; a correction whose
\* original is an empty array
ApiAnswers(text) ==
    LET L == SplitLinesLength(text)
        good == [original |-> Str("teh"), suggested |-> Str("the"), line |-> L,
                 context |-> Str("teh cat")]
        goodIssue == [issue |-> Str("heading level"), line |-> 1]
    IN  {[k \in {} |-> <<>>],
         [corrections |-> <<good>>, formattingIssues |-> <<goodIssue>>],
         [corrections |-> <<[original |-> Str(""), suggested |-> Str("the"), line |-> 1],
                            [original |-> Str("teh"), suggested |-> Str("the"), line |-> L],
                            [original |-> Str("teh"), line |-> L]>>,
          formattingIssues |-> <<[line |-> L]>>],
         [corrections |-> <<[original |-> EmptyArray, suggested |-> Str("the"), line |-> 1]>>,
          formattingIssues |-> <<>>]}

\* the remote exchange of one in-flight call ends: the answer is parsed and
\* the result built from it, or the call rejects (network error, an answer
\* that is not JSON or whose lists are not arrays)
CheckerAnswers ==
    /\ \E k \in InFlight :
         \/ \E parsed \in ApiAnswers(calls[k].text) :
              calls' = [calls EXCEPT ![k] = [text |-> @.text, outcome |-> "ok",
                                             result |-> ResultOf(parsed), answer |-> parsed]]
         \/ calls' = SettleCall(k, "fail", EmptyResult)
    /\ UNCHANGED <<cacheVars, inputVars, strategy, pc, fullVars, incVars, returned, progress,
                   suggestions, delays, modal>>

\* the strategies over the parsing checker
ParseNext ==
    \/ CreateStrategy
    \/ CheckerAnswers
    \/ FullCheck
    \/ FullSingleDone
    \/ FullNextChunk
    \/ FullChunkDone
    \/ FullDelayDone
    \/ FullReturn
    \/ IncCheck
    \/ IncNext
    \/ IncSectionDone
    \/ AutoCheck
    \/ AutoDone

ParseSpec == Init /\ [][ParseNext]_vars

\* ============================================ an incremental session, driven
\* rejections the checker makes in a row before it succeeds
MaxRejections == 2

\* documents of one to three sections of five characters, and the empty one
SessionDocs ==
    {<<>>,
     <<"a">>,
     <<"a", NL, "a", "a", "a", "a">>,
     <<"a", "a", "a", "a", NL, "a", "a", "a", "a", NL, "a">>}

\* an incremental run about to start, with sections of five characters
SessionInit ==
    /\ Init
    /\ mode = "incremental"
    /\ content \in SessionDocs
    /\ settings.incrementalModeSectionSize = 5

\* the rejected calls at the end of the calls settled so far
TrailingRejections ==
    Cardinality({k \in 1..Len(calls) :
                   \A j \in k..Len(calls) : calls[j].outcome \in {"fail", "pending"}}) - 1

\* the remote exchange of the in-flight call ends: it resolves, or, unless the
\* checker has just rejected MaxRejections times in a row, rejects
CheckerSettlesInTheEnd ==
    /\ \E k \in InFlight :
         \/ \E r \in ResultsFor(calls[k].text) : calls' = SettleCall(k, "ok", r)
         \/ /\ TrailingRejections < MaxRejections
            /\ calls' = SettleCall(k, "fail", EmptyResult)
    /\ UNCHANGED <<cacheVars, inputVars, strategy, pc, fullVars, incVars, returned, progress,
                   suggestions, delays, modal>>

\* the driver's loop: while (strategy.hasMoreSections()) await
\* strategy.checkNextSection(content, ...)
DriverCallsNext ==
    /\ pc = "idle"
    /\ strategy.kind = "IncrementalStrategy"
    /\ hasMoreSections
    /\ CheckNextSectionEnter(currentSection, totalSections, allResults)
    /\ UNCHANGED <<cacheVars, inputVars, strategy, fullVars, currentSection, totalSections,
                   allResults, suggestions, delays>>

SessionNext ==
    \/ CreateStrategy
    \/ IncCheck
    \/ DriverCallsNext
    \/ CheckerSettlesInTheEnd
    \/ IncSectionDone

\* the driver goes on calling, every call of the checker settles, and the
\* strategy resumes when it has
SessionSpec == SessionInit /\ [][SessionNext]_vars /\ WF_vars(SessionNext)

\* ================================= overlapping calls on one IncrementalStrategy
\* Nothing in check or checkNextSection keeps a second invocation from
\* starting while an earlier one is suspended at its await.  Each invocation
\* keeps its own startPos; it is recorded with the checker call it awaits,
\* together with whether check() started it.

\* the documents of an overlapped session: one, two and three sections
OverlapDocs == SessionDocs \ {<<>>}

OverlapInit ==
    /\ Init
    /\ mode = "incremental"
    /\ content \in OverlapDocs
    /\ settings.incrementalModeSectionSize = 5

\* invocations of check() so far
ChecksStarted == Cardinality({k \in 1..Len(calls) : calls[k].byCheck})

\* checkNextSection up to its await, entered with the session fields cur,
\* total, all, by check() or by a client
InvocationEnter(cur, total, all, byCheck) ==
    IF SessionComplete(cur, total)
    THEN /\ returned' = Resolved(all)
         /\ UNCHANGED <<calls, progress>>
    ELSE LET size == SectionSizeOf(settings)
             sp == cur * size
             endPos == Min(sp + size, Len(content))
         IN  /\ progress' = Append(progress, ProgressOf(cur, total))
             /\ calls' = Append(calls, [text |-> Substring(content, sp, endPos),
                                        outcome |-> "pending", result |-> EmptyResult,
                                        startPos |-> sp, byCheck |-> byCheck])
             /\ UNCHANGED returned

\* check() is invoked, for the first time or while the session runs
OverlapCheck ==
    /\ strategy # NoValue
    /\ strategy.kind = "IncrementalStrategy"
    /\ ChecksStarted < 2
    /\ Len(calls) < MaxCalls
    /\ currentSection' = 0
    /\ totalSections' = CeilDiv(Len(content), SectionSizeOf(settings))
    /\ allResults' = EmptyResult
    /\ InvocationEnter(currentSection', totalSections', allResults', TRUE)
    /\ pc' = "overlap"
    /\ UNCHANGED <<cacheVars, inputVars, strategy, fullVars, startPos, suggestions, delays, modal>>

\* checkNextSection is invoked, whether or not earlier invocations have returned
OverlapNextSection ==
    /\ pc = "overlap"
    /\ SessionComplete(currentSection, totalSections) \/ Len(calls) < MaxCalls
    /\ InvocationEnter(currentSection, totalSections, allResults, FALSE)
    /\ UNCHANGED <<cacheVars, inputVars, strategy, pc, fullVars, incVars, suggestions, delays, modal>>

\* the checker call of one suspended invocation settles and the invocation
\* resumes: on success it adjusts with its own startPos, pushes to
\* this.allResults, increments this.currentSection and returns the partial
\* result; on rejection it returns an empty result
OverlapResumes ==
    /\ pc = "overlap"
    /\ \E k \in InFlight :
         \/ \E r \in ResultsFor(calls[k].text) :
              LET off == SectionLineOffset(content, calls[k].startPos)
                  corr == AdjustLines(r.corrections, off)
                  iss == AdjustLines(r.formattingIssues, off)
              IN  /\ calls' = SettleCall(k, "ok", r)
                  /\ allResults' = PushAll(allResults, corr, iss)
                  /\ currentSection' = currentSection + 1
                  /\ returned' = Resolved([corrections |-> corr, formattingIssues |-> iss])
         \/ /\ calls' = SettleCall(k, "fail", EmptyResult)
            /\ returned' = Resolved(EmptyResult)
            /\ UNCHANGED <<allResults, currentSection>>
    /\ UNCHANGED <<cacheVars, inputVars, strategy, pc, fullVars, totalSections, startPos, progress,
                   suggestions, delays, modal>>

OverlapNext ==
    \/ CreateStrategy
    \/ OverlapCheck
    \/ OverlapNextSection
    \/ OverlapResumes

OverlapSpec == OverlapInit /\ [][OverlapNext]_vars

\* =================================================================== claims
RECURSIVE Flatten(_)
Flatten(ss) == IF ss = <<>> THEN <<>> ELSE Head(ss) \o Flatten(Tail(ss))

RECURSIVE SumTo(_, _)
SumTo(f, n) == IF n = 0 THEN 0 ELSE f[n] + SumTo(f, n - 1)

\* a multi-chunk run of FullChunkedStrategy.check has returned
FullMultiReturned ==
    /\ mode = "full"
    /\ pc = "idle"
    /\ Len(sections) >= 2

\* newline-delimited lines of the chunks before chunk k
PriorChunkLines(k) ==
    SumTo([j \in 1..Len(sections) |-> SplitLinesLength(sections[j])], k - 1)

\* the successful calls' entries, call k's lines raised by the lines of the
\* chunks before chunk k, concatenated in call order
ExpectedFull(field) ==
    Flatten([k \in 1..Len(calls) |->
               IF calls[k].outcome = "ok"
               THEN AdjustLines(calls[k].result[field], PriorChunkLines(k))
               ELSE <<>>])

FailedCalls == {k \in 1..Len(calls) : calls[k].outcome = "fail"}

\* C1: in every multi-chunk run of FullChunkedStrategy.check, whatever the
\* outcome of the earlier calls, each returned correction and formatting
\* issue carries the line the checker reported inside its chunk plus the
\* number of lines of all chunks that precede that chunk.
C1_LineIsChunkLinePlusPriorChunkLines ==
    FullMultiReturned =>
        /\ returned.kind = "resolved"
        /\ returned.value.corrections = ExpectedFull("corrections")
        /\ returned.value.formattingIssues = ExpectedFull("formattingIssues")

\* C2: in a multi-chunk run in which the checker rejected for exactly one
\* chunk, check() resolves, every chunk was submitted exactly once (the failed
\* one is not retried), and the result is the concatenation of the other
\* chunks' results, each raised by the lines of all chunks before it, the
\* failed one included.
C2_OneFailedChunkIsIsolated ==
    (FullMultiReturned /\ Cardinality(FailedCalls) = 1) =>
        /\ returned.kind = "resolved"
        /\ Len(calls) = Len(sections)
        /\ \A k \in 1..Len(calls) : calls[k].text = sections[k]
        /\ returned.value = [corrections |-> ExpectedFull("corrections"),
                             formattingIssues |-> ExpectedFull("formattingIssues")]


\* C3: when the content is no longer than the chunk size (fullModeChunkSize,
\* 4000 when unset), FullChunkedStrategy.check issues exactly one checker
\* call, on the whole content, waits no delay, splits nothing, and settles as
\* that call settles: resolved with the call's result unmodified.
C3_SingleChunkShortcut ==
    (mode = "full" /\ Len(content) <= OrDefault(settings.fullModeChunkSize, DefaultChunkSize)) =>
        /\ Len(calls) <= 1
        /\ \A k \in 1..Len(calls) : calls[k].text = content
        /\ delays = <<>>
        /\ sections = <<>>
        /\ pc = "idle" =>
             /\ Len(calls) = 1
             /\ calls[1].outcome = "ok" => returned = Resolved(calls[1].result)
             /\ calls[1].outcome = "fail" => returned = Rejected

\* the shortcut has returned a result with entries for a document exactly as
\* long as a configured chunk size
C3_Witness ==
    /\ mode = "full"
    /\ settings.fullModeChunkSize > 0
    /\ Len(content) = settings.fullModeChunkSize
    /\ pc = "idle"
    /\ modal.kind = "results"
    /\ Len(modal.value.corrections) = 2
    /\ Len(calls) = 1

\* the texts of a list of entries, lines left out
TextsOf(entries, tag) == [k \in 1..Len(entries) |-> entries[k][tag]]

\* calls whose caller has resumed after them
Processed ==
    IF pc \in {"full_single", "full_await", "inc_await", "auto_await"}
    THEN Len(calls) - 1 ELSE Len(calls)

\* the texts of the entries of the processed successful calls, in call order
TextsInCallOrder(field, tag) ==
    Flatten([k \in 1..Processed |->
               IF calls[k].outcome = "ok"
               THEN TextsOf(calls[k].result[field], tag) ELSE <<>>])

OkCallsBefore(k) == Cardinality({j \in 1..(k - 1) : calls[j].outcome = "ok"})

\* the section of the document at 0-based index n, for the section size in use
SectionAt(n) ==
    LET size == OrDefault(settings.incrementalModeSectionSize, DefaultSectionSize)
    IN  SubSeq(content, n * size + 1, Min((n + 1) * size, Len(content)))

InOrder(acc) ==
    /\ TextsOf(acc.corrections, "original") = TextsInCallOrder("corrections", "original")
    /\ TextsOf(acc.formattingIssues, "issue") = TextsInCallOrder("formattingIssues", "issue")

\* C4: chunks and sections are submitted in document order (call k of a
\* multi-chunk full run is chunk k; an incremental call is the section after
\* those already checked), and the accumulated corrections and formatting
\* issues are the successful calls' entries in call order, each call's entries
\* in the order the checker returned them.
C4_OrderPreserved ==
    /\ (mode = "full" /\ sections # <<>>) =>
          /\ Len(calls) <= Len(sections)
          /\ \A k \in 1..Len(calls) : calls[k].text = sections[k]
          /\ InOrder(results)
          /\ pc = "idle" => returned = Resolved(results)
    /\ mode = "incremental" =>
          /\ \A k \in 1..Len(calls) : calls[k].text = SectionAt(OkCallsBefore(k))
          /\ InOrder(allResults)

\* a three-chunk full run has returned, its first chunk having contributed two
\* corrections and an issue and its last chunk one correction
C4_Witness ==
    /\ mode = "full"
    /\ pc = "idle"
    /\ Len(sections) = 3
    /\ Len(calls) = 3
    /\ calls[1].outcome = "ok" /\ Len(calls[1].result.corrections) = 2
    /\ Len(calls[1].result.formattingIssues) = 1
    /\ calls[3].outcome = "ok" /\ Len(calls[3].result.corrections) = 1
    /\ Len(returned.value.corrections) >= 3

\* C5: within one run at most one checker call is in flight, and a call is
\* started only after every earlier call has resolved or rejected.
C5_OneCallInFlight ==
    /\ Cardinality(InFlight) <= 1
    /\ \A k \in 1..(Len(calls) - 1) : calls[k].outcome # "pending"

\* the third chunk's call of a full run is in flight, the first two settled,
\* one of them rejected
C5_Witness ==
    /\ mode = "full"
    /\ pc = "full_await"
    /\ Len(calls) = 3
    /\ InFlight = {3}
    /\ calls[1].outcome = "fail"
    /\ calls[2].outcome = "ok"


\* the offset-adjusted partial result of the section whose call just settled
SectionPartial ==
    LET off == SplitLinesLength(SubSeq(content, 1, startPos))
    IN  [corrections |-> AdjustLines(LastCall.result.corrections, off),
         formattingIssues |-> AdjustLines(LastCall.result.formattingIssues, off)]

\* a checkNextSection call that had started a checker call returns
SectionCallReturns == pc = "inc_await" /\ pc' # "inc_await"

\* C6: while the session is in progress, every call of checkNextSection,
\* whatever the checker's outcome, advances currentSection by exactly one,
\* returns that section's offset-adjusted partial result and appends exactly
\* that partial result to the accumulated total.
C6_EveryCallAdvancesByOne ==
    [][SectionCallReturns =>
         /\ currentSection' = currentSection + 1
         /\ returned' = Resolved(SectionPartial)
         /\ allResults' = [corrections |-> allResults.corrections \o SectionPartial.corrections,
                           formattingIssues |->
                               allResults.formattingIssues \o SectionPartial.formattingIssues]]_vars

\* C7: once currentSection = totalSections (all sections advanced through, or
\* check() on an empty document), every further checkNextSection call resolves
\* with the accumulated total, starts no checker call, invokes no callback and
\* leaves currentSection, totalSections and the accumulated total unchanged.
C7_OverrunIsIdempotent ==
    [][(mode = "incremental" /\ pc = "idle" /\ currentSection = totalSections) =>
         /\ returned' = Resolved(allResults)
         /\ pc' = "idle"
         /\ UNCHANGED <<calls, progress, suggestions, delays, modal,
                        currentSection, totalSections, allResults>>]_vars

\* after a session of two or more sections was advanced through, a further
\* call has returned the accumulated total, which holds more corrections than
\* the last section contributed
C7_Witness ==
    /\ mode = "incremental"
    /\ pc = "idle"
    /\ totalSections >= 2
    /\ currentSection = totalSections
    /\ returned = Resolved(allResults)
    /\ Len(allResults.corrections) > Len(LastCall.result.corrections)

\* C8: for mode 'incremental' on a document of more than one section, once
\* runSpellCheck has opened the results modal no section is left
\* (hasMoreSections() is false) and the value handed to the modal is the
\* accumulated total over all sections.
C8_RunDrivesIncrementalToCompletion ==
    (mode = "incremental" /\ modal.kind = "results" /\ totalSections > 1) =>
        /\ ~hasMoreSections
        /\ modal.value = getAllResults

ClaimedDensityReached(errorCount, prefixLength, threshold) ==
    IF prefixLength = 0 THEN errorCount > 0
    ELSE errorCount * 1000 >= threshold * prefixLength

\* C10: after AutoStrategy.check resolved, onModeSwitchSuggestion was invoked
\* exactly once, with 'full', if the density of the prefix result reaches the
\* configured threshold (0 included), and not at all otherwise.
C10_SuggestionIffDensityReachesConfiguredThreshold ==
    (mode = "auto" /\ pc = "idle" /\ returned.kind = "resolved") =>
        suggestions =
            IF ClaimedDensityReached(
                   Len(returned.value.corrections) + Len(returned.value.formattingIssues),
                   Min(5000, Len(content)),
                   settings.autoModeThreshold)
            THEN <<"full">> ELSE <<>>

\* C11: createStrategy returns a FullChunkedStrategy for 'full', an
\* IncrementalStrategy for 'incremental', an AutoStrategy for 'auto', and for
\* any other mode throws without returning a strategy; the object is fresh
\* (no session state yet) and construction makes no checker call and leaves
\* the cache as it is.
C11_FactoryMapsModesAndRejectsOthers ==
    /\ pc = "start" => strategy = NoValue
    /\ (pc # "start" /\ mode = "full") => strategy = [kind |-> "FullChunkedStrategy"]
    /\ (pc # "start" /\ mode = "incremental") => strategy = [kind |-> "IncrementalStrategy"]
    /\ (pc # "start" /\ mode = "auto") => strategy = [kind |-> "AutoStrategy"]
    /\ (pc # "start" /\ mode \notin {"full", "incremental", "auto"}) =>
          /\ strategy = NoValue
          /\ modal = [kind |-> "error"]
          /\ calls = <<>>
          /\ returned = NoValue
    /\ pc = "created" =>
          /\ calls = <<>>
          /\ currentSection = 0 /\ totalSections = 0 /\ allResults = EmptyResult
          /\ sections = <<>> /\ results = EmptyResult
          /\ progress = <<>> /\ suggestions = <<>> /\ modal = NoValue
          /\ CacheAtRest

\* createStrategy has thrown for an unknown mode and runSpellCheck has shown
\* the failure notice
C11_Witness ==
    /\ mode = "bogus"
    /\ pc = "idle"
    /\ modal = [kind |-> "error"]
    /\ strategy = NoValue

\* C12: whichever strategy runs and whichever checker calls reject, a call of
\* check() (or checkNextSection) that has settled has resolved with a result,
\* never rejected.
C12_NoStrategyRejectsOnCheckerFailure ==
    (strategy # NoValue /\ returned # NoValue) =>
        /\ returned.kind = "resolved"
        /\ DOMAIN returned.value = {"corrections", "formattingIssues"}

\* a call of the named CacheManager method is made in this step
CallOf(op) == ops' = ops + 1 /\ ret' # NoValue /\ ret'.op = op

\* the age of the entry under the key of the call made in this step
AgeAtCall == now - cache[ret'.key].timestamp

C14_ReadTimeTtlIsHonoured ==
    [][(CallOf("get") /\ ret'.key \in DOMAIN cache /\ AgeAtCall > ret'.ttl) =>
            (ret'.kind = "resolved" => ret'.value = Null)]_vars

\* C15: invalidate(pattern) removes exactly the entries whose key matches the
\* pattern: afterwards no matching key is left and every non-matching entry is
\* there unchanged.
C15_InvalidateRemovesExactlyMatchingKeys ==
    [][CallOf("invalidate") =>
            /\ DOMAIN cache' = {k \in DOMAIN cache : ~RegexTest(ret'.key, k)}
            /\ \A k \in DOMAIN cache' : cache'[k] = cache[k]]_vars

C17_PersistenceFailuresNeverReachCaller ==
    (ret # NoValue /\ ret.saved = "failed") =>
        /\ ret.kind = "resolved"
        /\ ret.op = "set" => ret.key \in DOMAIN cache

\* the constructor's load completes in this step, having read an object text
LoadsStored == load.phase = "read" /\ load'.phase = "done" /\ load.stored.kind = "json"

NonWhitespace(s) == SelectSeq(s, LAMBDA c : ~IsWhitespace(c))

\* C19: when a full-mode run in which every checker call succeeded has
\* returned, the non-whitespace characters of the document are, in order,
\* those of the texts sent to the remote API by the run's calls: nothing of the
\* document was left unsent.
C19_FullModeSendsWholeDocument ==
    (mode = "full" /\ pc = "idle" /\ returned.kind = "resolved" /\ FailedCalls = {}) =>
        Flatten([k \in 1..Len(calls) |-> NonWhitespace(SentText(calls[k].text))])
            = NonWhitespace(content)

\* the entry under the key of the check made in this step is present and its
\* age is within cacheDuration
CachedWithinDuration ==
    /\ ret'.key \in DOMAIN cache
    /\ now - cache[ret'.key].timestamp <= cacheSettings.cacheDuration

\* no entry is stored or changed in this step
StoresNothing == \A k \in DOMAIN cache' : k \in DOMAIN cache /\ cache'[k] = cache[k]

OriginLine(s, p) == SplitLinesLength(SubSeq(s, 1, p - 1))

\* the 0-based position in the document at which piece j of the split starts
\* (each split consumed the one newline before the header)
PieceStart(pieces, j) == SumTo([m \in 1..Len(pieces) |-> Len(pieces[m]) + 1], j - 1)

\* for each piece, the document line of each of its characters
PieceOrigins(s) ==
    LET pieces == HeaderSplit(s)
    IN  [j \in 1..Len(pieces) |->
           [m \in 1..Len(pieces[j]) |-> OriginLine(s, PieceStart(pieces, j) + m)]]

\* what trim() keeps of s, taken from the parallel sequence o
TrimAs(s, o) ==
    LET ink == {k \in 1..Len(s) : ~IsWhitespace(s[k])}
    IN  IF ink = {} THEN <<>>
        ELSE SubSeq(o, CHOOSE k \in ink : \A m \in ink : k <= m,
                       CHOOSE k \in ink : \A m \in ink : k >= m)

\* the chunks of splitByHeaders, each character replaced by the document line
\* it comes from; the characters of an inserted separator come from no line (0)
RECURSIVE OriginLoop(_, _, _, _, _, _, _)
OriginLoop(pieces, origins, j, chunkSize, out, cur, curOrigins) ==
    IF j > Len(pieces)
    THEN IF cur # <<>> THEN Append(out, TrimAs(cur, curOrigins)) ELSE out
    ELSE IF Len(cur) + Len(pieces[j]) > chunkSize /\ cur # <<>>
         THEN OriginLoop(pieces, origins, j + 1, chunkSize,
                         Append(out, TrimAs(cur, curOrigins)), pieces[j], origins[j])
         ELSE OriginLoop(pieces, origins, j + 1, chunkSize, out,
                         cur \o (IF cur # <<>> THEN <<NL, NL>> ELSE <<>>) \o pieces[j],
                         curOrigins \o (IF cur # <<>> THEN <<0, 0>> ELSE <<>>) \o origins[j])

ChunkOrigins(s, chunkSize) ==
    OriginLoop(HeaderSplit(s), PieceOrigins(s), 1, chunkSize, <<>>, <<>>, <<>>)

\* the document lines the text on line k of chunk c comes from (none for a
\* blank chunk line)
ChunkLineOrigins(c, k) ==
    LET text == sections[c]
        from == ChunkOrigins(content, ChunkSizeOf(settings))[c]
    IN  {from[p] : p \in {q \in 1..Len(text) : text[q] # NL /\ OriginLine(text, q) = k}}

\* the line returned for entry e of the given field of call c's result
ReturnedLine(field, c, e) ==
    returned.value[field][SumTo([j \in 1..Len(calls) |-> Len(calls[j].result[field])], c - 1) + e].line

LinesAreDocumentLines(field) ==
    \A c \in 1..Len(calls) : \A e \in 1..Len(calls[c].result[field]) :
        LET at == ChunkLineOrigins(c, calls[c].result[field][e].line)
        IN  at # {} => ReturnedLine(field, c, e) \in at

\* C21: when a multi-chunk run of FullChunkedStrategy.check in which every
\* chunk succeeded has returned, each entry the checker reported on a
\* non-blank chunk line k carries the 1-indexed line of the original document
\* on which the text of that chunk line lies.
C21_FullLinesReferToOriginalDocument ==
    (FullMultiReturned /\ FailedCalls = {} /\ returned.kind = "resolved") =>
        /\ LinesAreDocumentLines("corrections")
        /\ LinesAreDocumentLines("formattingIssues")

\* the document line on which the first character of the section whose call
\* just settled lies
SectionFirstLine == OriginLine(content, startPos + 1)

\* C22: when a section's checker call has succeeded, every entry the checker
\* reported on section-local line k is returned, and accumulated, on document
\* line L + k - 1, L being the document line of the section's first character;
\* the entries of the first section keep their lines.
C22_IncrementalOffsetMapsToDocumentLines ==
    [][(SectionCallReturns /\ LastCall.outcome = "ok") =>
         LET corr == AdjustLines(LastCall.result.corrections, SectionFirstLine - 1)
             iss == AdjustLines(LastCall.result.formattingIssues, SectionFirstLine - 1)
         IN  /\ returned' = Resolved([corrections |-> corr, formattingIssues |-> iss])
             /\ allResults' = PushAll(allResults, corr, iss)
             /\ (startPos = 0 =>
                   returned' = Resolved([corrections |-> LastCall.result.corrections,
                                         formattingIssues |-> LastCall.result.formattingIssues]))]_vars

\* the delays waited after the chunks of 0-based index 0 .. n-1, in order
DelaysAfterFirst(n) == [k \in 1..n |-> k - 1]

\* C23: in a multi-chunk run of FullChunkedStrategy.check, by the time the
\* call for a chunk starts, the delay has been waited once after each earlier
\* chunk, whether that chunk's call resolved or rejected; when the run has
\* returned, once after every chunk but the last, and never after the last.
C23_DelayBetweenChunksWhateverOutcome ==
    (mode = "full" /\ sections # <<>>) =>
        /\ pc \in {"full_await", "full_delay"} => delays = DelaysAfterFirst(i)
        /\ pc \in {"full_loop", "idle"} =>
             delays = DelaysAfterFirst(Min(i, Len(sections) - 1))

\* v is 100 * k / total rounded to the nearest integer, halves upwards
IsRoundedPercent(v, k, total) ==
    /\ 2 * total * v - total <= 200 * k
    /\ 200 * k < 2 * total * v + total

\* what C24 says of the reports apart from their range: one report per chunk
\* whose call has started, made with that call, each the rounded percentage of
\* its chunk, never decreasing, and, once the run has returned, one per chunk
\* with the last one 100
ReportsOncePerChunk ==
    /\ Len(progress) = Len(calls)
    /\ \A k \in 1..Len(progress) : IsRoundedPercent(progress[k], k, Len(sections))
    /\ \A k \in 1..(Len(progress) - 1) : progress[k] <= progress[k + 1]
    /\ pc = "idle" =>
         /\ Len(progress) = Len(sections)
         /\ progress[Len(progress)] = 100

\* a multi-chunk full run with progress reports on
FullMultiWithProgress == mode = "full" /\ sections # <<>> /\ settings.fullModeShowProgress

\* C24 as stated: in a multi-chunk full run with progress enabled, onProgress
\* is invoked once per chunk, with that chunk's call, with
\* round(100 * (i + 1) / total); the values never decrease, lie in 1..100 and
\* end with 100; a rejected chunk suppresses no later report.
C24_ProgressOncePerChunkWithin1To100 ==
    FullMultiWithProgress =>
        /\ ReportsOncePerChunk
        /\ \A k \in 1..Len(progress) : progress[k] \in 1..100

\* C24, amended: as stated, but the values lie in 0..100, and in 1..100 only
\* when the run has at most 200 chunks.
C24_ProgressOncePerChunkWithin0To100 ==
    FullMultiWithProgress =>
        /\ ReportsOncePerChunk
        /\ \A k \in 1..Len(progress) : progress[k] \in 0..100
        /\ Len(sections) <= 200 => \A k \in 1..Len(progress) : progress[k] \in 1..100

\* a run of more than 200 chunks has returned; one chunk's call was rejected,
\* the later chunks were reported all the same, the first report was 0 and the
\* last 100
C24_Witness ==
    /\ FullMultiWithProgress
    /\ pc = "idle"
    /\ Len(sections) > 200
    /\ calls[2].outcome = "fail"
    /\ Len(progress) = Len(sections)
    /\ progress[1] = 0
    /\ progress[Len(progress)] = 100

\* C25: every text FullChunkedStrategy passes to the checker has at most
\* chunkSize characters (fullModeChunkSize, 4000 when unset), and every text
\* IncrementalStrategy passes has at most sectionSize characters
\* (incrementalModeSectionSize, 5000 when unset).
C25_PerCallSizeBound ==
    /\ mode = "full" =>
         \A k \in 1..Len(calls) :
             Len(calls[k].text) <= OrDefault(settings.fullModeChunkSize, DefaultChunkSize)
    /\ mode = "incremental" =>
         \A k \in 1..Len(calls) :
             Len(calls[k].text) <= OrDefault(settings.incrementalModeSectionSize, DefaultSectionSize)

\* the pieces a .. b of a split, joined by blank lines
RECURSIVE JoinPieces(_, _, _)
JoinPieces(pieces, a, b) ==
    IF a > b THEN <<>>
    ELSE IF a = b THEN pieces[a]
    ELSE pieces[a] \o <<NL, NL>> \o JoinPieces(pieces, a + 1, b)

\* the g-th smallest member of a set of numbers
NthOf(S, g) == CHOOSE x \in S : Cardinality({y \in S : y <= x}) = g

\* the chunks are the pieces of the document, in order, cut into runs after
\* the pieces in cuts: chunk g is the trimmed join of the pieces of run g; a
\* chunk of two or more pieces is no longer than chunkSize; and a buffer was
\* flushed only where the next piece would have made it longer than chunkSize
ChunksAreRunsOfPieces(pieces, chunks, chunkSize, cuts) ==
    LET n == Len(pieces)
        starts == {1} \cup {c + 1 : c \in cuts}
        first(g) == NthOf(starts, g)
        last(g) == IF g = Cardinality(starts) THEN n ELSE NthOf(starts, g + 1) - 1
    IN  /\ Len(chunks) = Cardinality(starts)
        /\ \A g \in 1..Len(chunks) :
             /\ chunks[g] = Trim(JoinPieces(pieces, first(g), last(g)))
             /\ last(g) > first(g) => Len(chunks[g]) <= chunkSize
             /\ g < Len(chunks) =>
                  Len(JoinPieces(pieces, first(g), last(g) + 1)) > chunkSize

\* C26: the chunks splitByHeaders emits are the header-delimited pieces of the
\* document in their order, each piece in exactly one chunk, the buffer
\* flushed exactly when it is non-empty and the next piece would make it
\* longer than the chunk size, so that every chunk of two or more pieces is no
\* longer than the chunk size, and the last buffer emitted.
C26_ChunkerAccumulatesPieces ==
    (mode = "full" /\ sections # <<>>) =>
        \E cuts \in SUBSET (1..(Len(HeaderSplit(content)) - 1)) :
            ChunksAreRunsOfPieces(HeaderSplit(content), sections,
                                  OrDefault(settings.fullModeChunkSize, DefaultChunkSize), cuts)

\* a non-empty text
NonEmptyText(v) == v.type = "string" /\ v.text # ""

\* every correction has a non-empty original and a non-empty suggested, every
\* formatting issue a non-empty issue
WellFormed(r) ==
    /\ \A k \in 1..Len(r.corrections) :
         /\ NonEmptyText(Field(r.corrections[k], "original"))
         /\ NonEmptyText(Field(r.corrections[k], "suggested"))
    /\ \A k \in 1..Len(r.formattingIssues) :
         NonEmptyText(Field(r.formattingIssues[k], "issue"))

\* the entries of a list, their lines left out
WithoutLines(entries) ==
    [k \in 1..Len(entries) |-> [f \in DOMAIN entries[k] \ {"line"} |-> entries[k][f]]]

\* the accumulated entries are, but for their lines, the entries of the
\* successful calls whose caller has resumed
OnlyLinesChanged(acc) ==
    \A field \in {"corrections", "formattingIssues"} :
        WithoutLines(acc[field]) =
            Flatten([k \in 1..Processed |->
                       IF calls[k].outcome = "ok"
                       THEN WithoutLines(calls[k].result[field]) ELSE <<>>])

\* C27: whatever JSON the remote API answered, every result
\* checkSpellingAndFormat returned, and every result a strategy accumulated or
\* returned, holds only corrections with non-empty original and suggested and
\* only formatting issues with non-empty issue; and the strategies' offset
\* adjustment changes nothing of an entry but its line.
C27_ResultsAreWellFormed ==
    /\ \A k \in 1..Len(calls) : calls[k].outcome = "ok" => WellFormed(calls[k].result)
    /\ WellFormed(results)
    /\ WellFormed(allResults)
    /\ returned.kind = "resolved" => WellFormed(returned.value)
    /\ (mode = "full" /\ sections # <<>>) => OnlyLinesChanged(results)
    /\ mode = "incremental" => OnlyLinesChanged(allResults)

\* the successful calls, in call order
OkCalls == SelectSeq(calls, LAMBDA c : c.outcome = "ok")

\* the entries of the successful calls, each call's lines raised as its
\* section's were, concatenated in call order
SessionTotal(field) ==
    Flatten([k \in 1..Len(OkCalls) |->
               AdjustLines(OkCalls[k].result[field],
                           SectionLineOffset(content, (k - 1) * SectionSizeOf(settings)))])

\* the session is over: the last call has returned and no section is left
SessionOver == mode = "incremental" /\ pc = "idle" /\ ~hasMoreSections

\* a section's call that the checker rejected returns
RejectedCallReturns == SectionCallReturns /\ LastCall.outcome = "fail"

\* C28: a driver that calls check() and then checkNextSection while
\* hasMoreSections() holds reaches hasMoreSections() = false, the checker
\* succeeding for each section after finitely many rejections; a rejected call
\* leaves currentSection and the accumulated total as they were and the next
\* call submits the same section again; 0 <= currentSection <= totalSections
\* throughout; and at the end each section was checked successfully exactly
\* once, in order, and the total holds those calls' results once each, in
\* section order.
C28_IncrementalSessionTerminates ==
    /\ <>SessionOver
    /\ [](0 <= currentSection /\ currentSection <= totalSections)
    /\ [][RejectedCallReturns =>
            /\ currentSection' = currentSection
            /\ allResults' = allResults
            /\ hasMoreSections']_vars
    /\ [][(pc = "idle" /\ pc' = "inc_await" /\ calls # <<>> /\ LastCall.outcome = "fail") =>
            calls'[Len(calls')].text = LastCall.text]_vars
    /\ [](SessionOver =>
            /\ Len(OkCalls) = totalSections
            /\ \A k \in 1..Len(OkCalls) : OkCalls[k].text = SectionAt(k - 1)
            /\ allResults = [corrections |-> SessionTotal("corrections"),
                             formattingIssues |-> SessionTotal("formattingIssues")])

\* a session of three sections is over; the checker had rejected twice in a
\* row, and each section contributed corrections
C28_Witness ==
    /\ SessionOver
    /\ totalSections = 3
    /\ Len(calls) >= 5
    /\ calls[2].outcome = "fail" /\ calls[3].outcome = "fail"
    /\ \A k \in 1..Len(OkCalls) : Len(OkCalls[k].result.corrections) >= 1
    /\ Len(allResults.corrections) >= 3

\* the session (the count of check() invocations) that started call k
SessionOf(k) == Cardinality({j \in 1..k : calls[j].byCheck})

\* the calls of the session under way
CurrentCalls == {k \in 1..Len(calls) : SessionOf(k) = SessionOf(Len(calls))}

\* C29: also when check or checkNextSection is invoked before an earlier
\* invocation's checker call has resolved, no section is submitted while a
\* call for it is in flight or after a call for it succeeded, no section is
\* submitted before the one before it was checked, each section's results are
\* in the accumulated total at most once and only in the total of the session
\* that started the call, and currentSection never exceeds totalSections.
C29_OverlappingCallsKeepTheSession ==
    /\ currentSection <= totalSections
    /\ \A j, k \in 1..Len(calls) :
         (j < k /\ SessionOf(j) = SessionOf(k) /\ calls[j].startPos = calls[k].startPos) =>
             calls[j].outcome = "fail"
    /\ \A k \in 1..Len(calls) :
         calls[k].startPos > 0 =>
             \E j \in 1..(k - 1) :
                 /\ SessionOf(j) = SessionOf(k)
                 /\ calls[j].startPos + SectionSizeOf(settings) = calls[k].startPos
    /\ Len(allResults.corrections) =
         SumTo([k \in 1..Len(calls) |->
                  IF k \in CurrentCalls /\ calls[k].outcome = "ok"
                  THEN Len(calls[k].result.corrections) ELSE 0], Len(calls))

\* the last call was a set that resolved, and no call or restart followed
SetHasResolved == ret # NoValue /\ ret.op = "set" /\ ret.kind = "resolved"

\* the persisted members that have not expired and are not under key
Unexpired(stored, key) ==
    IF stored.kind # "json" THEN {}
    ELSE {m \in stored.members : m.name # key /\ now - m.timestamp <= m.ttl}

\* the call made in this step is the first since the CacheManager was
\* constructed
FirstCallOf(op) == ret = NoValue /\ CallOf(op)

\* C30: whatever the constructor's load does and whenever it does it, once a
\* set(k, v, ttl) has resolved the cache holds v under k (so that a get within
\* ttl returns it) until the next call, and a set that resolves as the first
\* call after a restart leaves in the persisted blob every unexpired entry
\* that was persisted before the restart.
C30_StartupLoadLosesNoWrite ==
    /\ [](SetHasResolved =>
            /\ ret.key \in DOMAIN cache
            /\ cache[ret.key] = [value |-> Value(ops), timestamp |-> cache[ret.key].timestamp,
                                 ttl |-> ret.ttl])
    /\ [][(FirstCallOf("set") /\ ret'.kind = "resolved") =>
            (blob'.kind = "json" /\ Unexpired(blob, ret'.key) \subseteq blob'.members)]_vars

====
